---- MODULE Spec2Model ----
(***************************************************************************)
(* A model of wikisniffer.js: the WikiSniffer class (initialize,           *)
(* searchAndCapture, processTermsFromFile, close), main() and the SIGINT   *)
(* handler.  One step of the model is one await of the program: the        *)
(* synchronous code between two awaits runs inside the step that resumes   *)
(* it.  Every call into the browser library or the file system either      *)
(* resolves or rejects; which one is an input of the step.                 *)
(*                                                                         *)
(* A JavaScript string is a sequence of one-character strings; a           *)
(* character outside ASCII is written by its code point ("U+00C9").        *)
(***************************************************************************)
EXTENDS Integers, Sequences, FiniteSets, TLC

VARIABLES
    pc,          \* where main() is suspended
    args,        \* process.argv.slice(2)
    inputKind,   \* what args[0] names on disk: "absent", "unreadable", "file"
    content,     \* the text of that file
    outDir,      \* OUT_DIR on disk: did it exist at the start, does it now
    browser,     \* this.browser: "null", "open", "closed"
    context,     \* this.context is set
    page,        \* this.page is set
    terms,       \* processTermsFromFile: terms
    i,           \* processTermsFromFile: i (0-based)
    results,     \* processTermsFromFile: results
    cap,         \* the searchAndCapture call in flight
    files,       \* the image files in OUT_DIR
    calls,       \* the searchAndCapture calls made, in order
    returns,     \* what those calls returned to their callers, in order
    pauses,      \* the waitForTimeout(2000) pauses completed
    summaries,   \* the summaries printed
    events,      \* console output and process events, coarse
    mkdirs,      \* the mkdir calls issued
    interrupted  \* process.exit(0) was run by the SIGINT handler

vars == <<pc, args, inputKind, content, outDir, browser, context, page,
          terms, i, results, cap, files, calls, returns, pauses, summaries,
          events, mkdirs, interrupted>>

inputVars == <<args, inputKind, content>>
sessionVars == <<browser, context, page>>
batchVars == <<terms, i, results, summaries>>

----------------------------------------------------------------------------
(* Bounds *)

MaxLines == 3
MaxTermLen == 3

----------------------------------------------------------------------------
(* Characters and strings *)

AsciiLower == {"a","b","c","d","e","f","g","h","i","j","k","l","m",
               "n","o","p","q","r","s","t","u","v","w","x","y","z"}
AsciiUpper == {"A","B","C","D","E","F","G","H","I","J","K","L","M",
               "N","O","P","Q","R","S","T","U","V","W","X","Y","Z"}
Digits == {"0","1","2","3","4","5","6","7","8","9"}

\* String.prototype.trim strips white space and line terminators.
WhiteSpace == {" ", "\t", "\n", "\r"}

Min(S) == CHOOSE x \in S : \A y \in S : x <= y
Max(S) == CHOOSE x \in S : \A y \in S : x >= y

\* All strings over alphabet A of length at most n.
StringsUpTo(A, n) == UNION {[1..k -> A] : k \in 0..n}

\* String.prototype.toLowerCase, one character: the upper-case letters of
\* the model's alphabets; every other character of them has no lower case.
LowerChar(c) ==
    CASE c = "A" -> "a" [] c = "B" -> "b" [] c = "Z" -> "z"
      [] c = "T" -> "t" [] c = "U+00C9" -> "U+00E9"
      [] OTHER -> c

ToLowerCase(s) == [k \in 1..Len(s) |-> LowerChar(s[k])]

\* /[^a-z0-9]/gi without the u flag: a character matches the class
\* [a-z0-9] ignoring case exactly when it is an ASCII letter or digit, so
\* the negated class matches every other character.
MatchesNonAlnum(c) == c \notin (AsciiLower \cup AsciiUpper \cup Digits)

\* s.replace(/[^a-z0-9]/gi, '_')
ReplaceNonAlnum(s) ==
    [k \in 1..Len(s) |-> IF MatchesNonAlnum(s[k]) THEN "_" ELSE s[k]]

\* s.replace(/[:.]/g, '-')
ReplaceColonDot(s) ==
    [k \in 1..Len(s) |-> IF s[k] \in {":", "."} THEN "-" ELSE s[k]]

\* s.split(sep) for a one-character separator.
RECURSIVE Split(_, _)
Split(s, sep) ==
    LET at == {k \in 1..Len(s) : s[k] = sep}
    IN  IF at = {} THEN <<s>>
        ELSE <<SubSeq(s, 1, Min(at) - 1)>>
                 \o Split(SubSeq(s, Min(at) + 1, Len(s)), sep)

\* s.trim()
Trim(s) ==
    LET keep == {k \in 1..Len(s) : s[k] \notin WhiteSpace}
    IN  IF keep = {} THEN <<>> ELSE SubSeq(s, Min(keep), Max(keep))

\* lines.join('\n'): how a text file is made of its lines.
RECURSIVE JoinLines(_)
JoinLines(ls) ==
    IF Len(ls) = 0 THEN <<>>
    ELSE IF Len(ls) = 1 THEN ls[1]
    ELSE ls[1] \o <<"\n">> \o JoinLines(Tail(ls))

----------------------------------------------------------------------------
(* File names and paths *)

\* A path: the directory's segments and the file's name.
OUT_DIR == << <<"c","w","d">>, <<"s","n","a","p","s","h","o","t","s">> >>

Null == [dir |-> <<>>, name |-> <<>>]

\* path.join(dir, rel): the separators of rel add directory segments.
PathJoin(dir, rel) ==
    LET segs == Split(rel, "/")
    IN  [dir |-> dir \o SubSeq(segs, 1, Len(segs) - 1), name |-> segs[Len(segs)]]

\* path.basename(p)
Basename(p) == p.name

Png == <<".","p","n","g">>
ErrorPrefix == <<"e","r","r","o","r","_">>

\* Mutant of SanitizedTerm: the lower-casing is left out.
SanitizedTermNoLower(searchTerm) == ReplaceNonAlnum(searchTerm)

\* searchTerm.replace(/[^a-z0-9]/gi, '_').toLowerCase()
SanitizedTerm(searchTerm) == ToLowerCase(ReplaceNonAlnum(searchTerm))

\* new Date().toISOString().replace(/[:.]/g, '-').split('T')[0]
Timestamp(iso) == Split(ReplaceColonDot(iso), "T")[1]

\* `${sanitizedTerm}_${timestamp}.png`
Filename(searchTerm, iso) ==
    SanitizedTerm(searchTerm) \o <<"_">> \o Timestamp(iso) \o Png

\* `error_${searchTerm.replace(/[^a-z0-9]/gi, '_').toLowerCase()}.png`
ErrorFilename(searchTerm) == ErrorPrefix \o SanitizedTerm(searchTerm) \o Png

\* !!result: null and the empty string are falsy.
Truthy(result) == result # Null /\ (Len(result.dir) > 0 \/ Len(result.name) > 0)

\* page.screenshot({path}) writes, or overwrites, the file at path.
WriteFile(fs, p, full) ==
    {f \in fs : f.path # p} \cup {[path |-> p, fullPage |-> full]}

----------------------------------------------------------------------------
(* Inputs *)

\* What new Date().toISOString() may return during a run.
IsoStamps == { <<"2","0","2","6","-","1","1","-","0","5","T","2","3",":","5","9",":","5","9",".","9","9","9","Z">>,
               <<"2","0","2","6","-","1","1","-","0","6","T","0","0",":","0","0",":","0","0",".","0","0","0","Z">> }

\* The lines a terms file is made of.
RawLines == { <<>>, <<" ">>, <<"a">>, <<" ","B","/"," ">> }

Contents == {JoinLines(ls) : ls \in StringsUpTo(RawLines, MaxLines)}

\* The command-line argument: a search term or the name of a file.
Inputs == { <<"T",".","t">> }

\* The characters of the terms whose file names are enumerated.
TermAlphabet == {"a", "Z", "7", " ", "/", "U+00C9"}

\* content.split('\n').map(term => term.trim()).filter(term => term.length > 0)
ParseTerms(text) ==
    LET lines == Split(text, "\n")
        trimmed == [k \in 1..Len(lines) |-> Trim(lines[k])]
    IN  SelectSeq(trimmed, LAMBDA term : Len(term) > 0)

----------------------------------------------------------------------------
(* searchAndCapture: the calls of the try block before the screenshot *)

PageCalls == <<"goto", "fill", "press", "waitForSelector", "click",
               "waitForLoadState", "wheel", "waitForTimeout", "wheel",
               "waitForTimeout", "wheel", "waitForTimeout">>

IdleCap == [pc |-> "idle", term |-> <<>>, via |-> "none", step |-> 0,
            ret |-> Null, fallbacks |-> 0, fullShots |-> 0]

\* A call of searchAndCapture(term) runs up to its first await, page.goto.
BeginCapture(term, via) ==
    /\ cap' = [pc |-> "try", term |-> term, via |-> via, step |-> 1,
               ret |-> Null, fallbacks |-> 0, fullShots |-> 0]
    /\ calls' = Append(calls, [term |-> term, via |-> via])
    /\ pc' = "Capture"

\* Mutant of Summary: the screenshots are listed without the success filter.
SummaryListsAll(rs) ==
    LET ok == SelectSeq(rs, LAMBDA r : r.success)
        ko == SelectSeq(rs, LAMBDA r : ~r.success)
    IN  [successful |-> Len(ok),
         failed |-> Len(rs) - Len(ok),
         total |-> Len(rs),
         shots |-> [k \in 1..Len(rs) |-> Basename(rs[k].filepath)],
         failedTerms |-> [k \in 1..Len(ko) |-> ko[k].term]]

\* The summary processTermsFromFile prints from results.
Summary(rs) ==
    LET ok == SelectSeq(rs, LAMBDA r : r.success)
        ko == SelectSeq(rs, LAMBDA r : ~r.success)
    IN  [successful |-> Len(ok),
         failed |-> Len(rs) - Len(ok),
         total |-> Len(rs),
         shots |-> [k \in 1..Len(ok) |-> Basename(ok[k].filepath)],
         failedTerms |-> [k \in 1..Len(ko) |-> ko[k].term]]

----------------------------------------------------------------------------
(* The state after the module is loaded, before main() runs *)

Init ==
    /\ pc = "Idle"
    /\ args \in {<<>>} \cup {<<a>> : a \in Inputs}
    /\ inputKind \in IF args = <<>> THEN {"absent"}
                     ELSE {"absent", "unreadable", "file"}
    /\ content \in IF inputKind = "file" THEN Contents ELSE {<<>>}
    /\ outDir \in {[existed |-> b, exists |-> b] : b \in BOOLEAN}
    /\ browser = "null"
    /\ context = FALSE
    /\ page = FALSE
    /\ terms = <<>>
    /\ i = 0
    /\ results = <<>>
    /\ cap = IdleCap
    /\ files = {}
    /\ calls = <<>>
    /\ returns = <<>>
    /\ pauses = 0
    /\ summaries = <<>>
    /\ events = <<>>
    /\ mkdirs = 0
    /\ interrupted = FALSE

----------------------------------------------------------------------------
(* main() and initialize() *)

\* main(): finally { await sniffer.close() }, entered with console output
\* evs.  close() awaits this.browser.close() if this.browser is set, and
\* returns at once if it is not, which ends main().
EnterFinally(evs) ==
    IF browser = "null"
    THEN /\ pc' = "Terminated"
         /\ events' = evs
    ELSE /\ pc' = "Closing"
         /\ events' = Append(evs, "closing")

\* Mutant of Fatal: the outer try has no finally, main() returns from the
\* catch.
FatalNoFinally ==
    /\ events' = Append(events, "fatal")
    /\ pc' = "Terminated"

\* main(): catch (error) of the outer try, 'Fatal error', then finally.
Fatal == EnterFinally(Append(events, "fatal"))

\* main(): no argument, the usage text is printed and main returns.
Usage ==
    /\ pc = "Idle"
    /\ args = <<>>
    /\ events' = Append(events, "usage")
    /\ pc' = "Terminated"
    /\ UNCHANGED <<inputVars, outDir, sessionVars, batchVars, cap, files,
                   calls, returns, pauses, mkdirs, interrupted>>

\* main(): new WikiSniffer(), initialize() up to chromium.launch.
Start ==
    /\ pc = "Idle"
    /\ args # <<>>
    /\ pc' = "Launch"
    /\ UNCHANGED <<inputVars, outDir, sessionVars, batchVars, cap, files,
                   calls, returns, pauses, events, mkdirs, interrupted>>

\* initialize(): this.browser = await chromium.launch(...)
Launch ==
    /\ pc = "Launch"
    /\ \E ok \in BOOLEAN :
          IF ok THEN /\ browser' = "open"
                     /\ pc' = "NewContext"
                     /\ UNCHANGED events
                ELSE /\ Fatal
                     /\ UNCHANGED browser
    /\ UNCHANGED <<inputVars, outDir, context, page, batchVars, cap, files,
                   calls, returns, pauses, mkdirs, interrupted>>

\* initialize(): this.context = await this.browser.newContext()
NewContext ==
    /\ pc = "NewContext"
    /\ \E ok \in BOOLEAN :
          IF ok THEN /\ context' = TRUE
                     /\ pc' = "NewPage"
                     /\ UNCHANGED events
                ELSE /\ Fatal
                     /\ UNCHANGED context
    /\ UNCHANGED <<inputVars, outDir, browser, page, batchVars, cap, files,
                   calls, returns, pauses, mkdirs, interrupted>>

\* initialize(): this.page = await this.context.newPage()
NewPage ==
    /\ pc = "NewPage"
    /\ \E ok \in BOOLEAN :
          IF ok THEN /\ page' = TRUE
                     /\ pc' = "AccessOutDir"
                     /\ UNCHANGED events
                ELSE /\ Fatal
                     /\ UNCHANGED page
    /\ UNCHANGED <<inputVars, outDir, browser, context, batchVars, cap, files,
                   calls, returns, pauses, mkdirs, interrupted>>

\* Mutant of AccessOutDir: the catch of initialize() does not call mkdir.
AccessOutDirNoMkdir ==
    /\ pc = "AccessOutDir"
    /\ pc' = "AccessInput"
    /\ UNCHANGED <<inputVars, outDir, sessionVars, batchVars, cap, files,
                   calls, returns, pauses, events, mkdirs, interrupted>>

\* initialize(): await access(OUT_DIR).  It resolves when OUT_DIR exists,
\* and then main() awaits access(input); its rejection enters the catch,
\* which calls mkdir.
AccessOutDir ==
    /\ pc = "AccessOutDir"
    /\ pc' = IF outDir.exists THEN "AccessInput" ELSE "Mkdir"
    /\ mkdirs' = IF outDir.exists THEN mkdirs ELSE mkdirs + 1
    /\ UNCHANGED <<inputVars, outDir, sessionVars, batchVars, cap, files,
                   calls, returns, pauses, events, interrupted>>

\* initialize(): await mkdir(OUT_DIR, {recursive: true}); then main() awaits
\* access(input).
Mkdir ==
    /\ pc = "Mkdir"
    /\ \E ok \in BOOLEAN :
          IF ok THEN /\ outDir' = [outDir EXCEPT !.exists = TRUE]
                     /\ pc' = "AccessInput"
                     /\ UNCHANGED events
                ELSE /\ Fatal
                     /\ UNCHANGED outDir
    /\ UNCHANGED <<inputVars, sessionVars, batchVars, cap, files, calls,
                   returns, pauses, mkdirs, interrupted>>

\* main(): await access(input).  It resolves for a path that exists, and
\* processTermsFromFile(input) runs up to readFile; it rejects for any other
\* argument, and the catch calls searchAndCapture(input).
AccessInput ==
    /\ pc = "AccessInput"
    /\ IF inputKind = "absent"
       THEN BeginCapture(args[1], "single")
       ELSE /\ pc' = "ReadFile"
            /\ UNCHANGED <<cap, calls>>
    /\ UNCHANGED <<inputVars, outDir, sessionVars, batchVars, files, returns,
                   pauses, events, mkdirs, interrupted>>

----------------------------------------------------------------------------
(* processTermsFromFile() *)

\* Mutant of CatchReadError: processTermsFromFile has no catch, its error
\* reaches the catch of main()'s inner try, which captures the argument.
ReadErrorReachesMain ==
    /\ events' = events
    /\ BeginCapture(args[1], "single")

\* catch (error) of processTermsFromFile: 'Error reading terms file' is
\* printed and the function returns to main(), which enters finally.  It
\* catches whatever the try block throws: a rejected readFile, and a rejected
\* waitForTimeout of the loop.
CatchReadError ==
    /\ EnterFinally(Append(events, "read-error"))
    /\ cap' = IdleCap
    /\ calls' = calls

\* Mutant of NeedsPause: the pause follows every term.
NeedsPauseAlways(idx, n) == idx < n

\* if (i < terms.length - 1): a pause follows every term but the last.
NeedsPause(idx, n) == idx < n - 1

\* for (let i = ...; i < terms.length; ...): the loop test with i = idx and
\* results = rs, after console output evs.  It calls searchAndCapture for
\* the next term, or leaves the loop, prints the summary and returns to
\* main(), which enters finally.
LoopHead(ts, idx, rs, evs) ==
    /\ i' = idx
    /\ results' = rs
    /\ IF idx < Len(ts)
       THEN /\ BeginCapture(ts[idx + 1], "batch")
            /\ summaries' = summaries
            /\ events' = evs
       ELSE /\ summaries' = Append(summaries, Summary(rs))
            /\ EnterFinally(Append(evs, "summary"))
            /\ cap' = IdleCap
            /\ calls' = calls

\* const content = await readFile(filePath, 'utf8'), and the code up to the
\* next await.
ReadFile ==
    /\ pc = "ReadFile"
    /\ IF inputKind = "file"
       THEN LET ts == ParseTerms(content)
            IN  /\ terms' = ts
                /\ LoopHead(ts, 0, <<>>, Append(events, "found"))
       ELSE /\ CatchReadError
            /\ UNCHANGED batchVars
    /\ UNCHANGED <<inputVars, outDir, sessionVars, files, returns, pauses,
                   mkdirs, interrupted>>

\* const result = await this.searchAndCapture(term) resumes: results.push,
\* then the pause is awaited or the loop goes on.
BatchReturn ==
    /\ pc = "Capture"
    /\ cap.pc = "return"
    /\ cap.via = "batch"
    /\ returns' = Append(returns, cap.ret)
    /\ LET rs == Append(results, [term |-> terms[i + 1],
                                  success |-> Truthy(cap.ret),
                                  filepath |-> cap.ret])
       IN  IF NeedsPause(i, Len(terms))
           THEN /\ pc' = "Pause"
                /\ results' = rs
                /\ cap' = IdleCap
                /\ UNCHANGED <<i, calls, summaries, events>>
           ELSE LoopHead(terms, i + 1, rs, events)
    /\ UNCHANGED <<inputVars, outDir, sessionVars, terms, files, pauses,
                   mkdirs, interrupted>>

\* await this.page.waitForTimeout(2000) between two terms.
Pause ==
    /\ pc = "Pause"
    /\ \E ok \in BOOLEAN :
          IF ok THEN /\ pauses' = pauses + 1
                     /\ LoopHead(terms, i + 1, results, events)
                ELSE /\ CatchReadError
                     /\ UNCHANGED <<pauses, i, results, summaries>>
    /\ UNCHANGED <<inputVars, outDir, sessionVars, terms, files, returns,
                   mkdirs, interrupted>>

----------------------------------------------------------------------------
(* searchAndCapture() *)

\* Mutant of CatchCapture: searchAndCapture has no catch, the error reaches
\* the caller's catch (processTermsFromFile's, or main()'s outer one).
CaptureRethrows ==
    /\ cap' = IdleCap
    /\ EnterFinally(Append(events, IF cap.via = "batch" THEN "read-error"
                                                          ELSE "fatal"))

\* catch (error) of searchAndCapture: the error is printed and the fallback
\* screenshot is awaited.
CatchCapture ==
    /\ cap' = [cap EXCEPT !.pc = "fallback"]
    /\ events' = Append(events, "capture-error")
    /\ pc' = pc

\* One awaited call of the try block before the screenshot.
PageCall ==
    /\ pc = "Capture"
    /\ cap.pc = "try"
    /\ \E ok \in BOOLEAN :
          IF ok THEN /\ cap' = [cap EXCEPT
                                 !.step = @ + 1,
                                 !.pc = IF cap.step = Len(PageCalls)
                                        THEN "screenshot" ELSE "try"]
                     /\ UNCHANGED <<pc, events>>
                ELSE CatchCapture
    /\ UNCHANGED <<inputVars, outDir, sessionVars, batchVars, files, calls,
                   returns, pauses, mkdirs, interrupted>>

\* The names are computed and await this.page.screenshot({path: filepath,
\* fullPage: true}) is run; return filepath.
Screenshot ==
    /\ pc = "Capture"
    /\ cap.pc = "screenshot"
    /\ \E iso \in IsoStamps, ok \in BOOLEAN :
          LET filepath == PathJoin(OUT_DIR, Filename(cap.term, iso))
          IN  IF ok THEN /\ files' = WriteFile(files, filepath, TRUE)
                         /\ cap' = [cap EXCEPT !.pc = "return",
                                               !.ret = filepath,
                                               !.fullShots = @ + 1]
                         /\ UNCHANGED <<pc, events>>
                    ELSE /\ CatchCapture
                         /\ UNCHANGED files
    /\ UNCHANGED <<inputVars, outDir, sessionVars, batchVars, calls, returns,
                   pauses, mkdirs, interrupted>>

\* Mutant of FallbackResult: the catch block returns the fallback's path.
FallbackResultPath(p) == p

\* return null, at the end of the catch block; p is the fallback's path.
FallbackResult(p) == Null

\* The inner try of the catch block: await this.page.screenshot({path:
\* path.join(OUT_DIR, errorFilename), fullPage: false}); its rejection is
\* caught and printed.  Then return null.
FallbackScreenshot ==
    /\ pc = "Capture"
    /\ cap.pc = "fallback"
    /\ \E ok \in BOOLEAN :
          LET p == PathJoin(OUT_DIR, ErrorFilename(cap.term))
          IN  /\ files' = IF ok THEN WriteFile(files, p, FALSE) ELSE files
              /\ cap' = [cap EXCEPT !.pc = "return",
                                    !.ret = FallbackResult(p),
                                    !.fallbacks = IF ok THEN @ + 1 ELSE @]
    /\ UNCHANGED <<pc, inputVars, outDir, sessionVars, batchVars, calls,
                   returns, pauses, events, mkdirs, interrupted>>

\* main(): await sniffer.searchAndCapture(input) resumes in the catch of the
\* inner try; the result is dropped and finally is entered.
SingleReturn ==
    /\ pc = "Capture"
    /\ cap.pc = "return"
    /\ cap.via = "single"
    /\ returns' = Append(returns, cap.ret)
    /\ cap' = IdleCap
    /\ EnterFinally(events)
    /\ UNCHANGED <<inputVars, outDir, sessionVars, batchVars, files, calls,
                   pauses, mkdirs, interrupted>>

----------------------------------------------------------------------------
(* close() and the SIGINT handler *)

\* close(): await this.browser.close() resolves, close() and main() return.
\* Browser.close() resolves also when the browser is gone already.
Close ==
    /\ pc = "Closing"
    /\ browser' = "closed"
    /\ pc' = "Terminated"
    /\ UNCHANGED <<inputVars, outDir, context, page, batchVars, cap, files,
                   calls, returns, pauses, events, mkdirs, interrupted>>

\* Mutant of Sigint: the handler runs the teardown, close(), before exiting.
SigintTearsDown ==
    /\ pc \notin {"Idle", "Terminated"}
    /\ interrupted' = TRUE
    /\ EnterFinally(Append(events, "sigint"))
    /\ UNCHANGED <<inputVars, outDir, sessionVars, batchVars, cap, files,
                   calls, returns, pauses, mkdirs>>

\* process.on('SIGINT', ...): the handler prints and calls process.exit(0).
\* It runs between two steps of main(), whatever main() awaits.
Sigint ==
    /\ pc \notin {"Idle", "Terminated"}
    /\ events' = Append(events, "sigint")
    /\ interrupted' = TRUE
    /\ pc' = "Terminated"
    /\ UNCHANGED <<inputVars, outDir, sessionVars, batchVars, cap, files,
                   calls, returns, pauses, mkdirs>>

----------------------------------------------------------------------------
(* Specifications *)

Next ==
    \/ Usage
    \/ Start
    \/ Launch
    \/ NewContext
    \/ NewPage
    \/ AccessOutDir
    \/ Mkdir
    \/ AccessInput
    \/ ReadFile
    \/ BatchReturn
    \/ Pause
    \/ PageCall
    \/ Screenshot
    \/ FallbackScreenshot
    \/ SingleReturn
    \/ Close
    \/ Sigint

Spec == Init /\ [][Next]_vars

\* searchAndCapture(term) for every term of TermAlphabet up to MaxTermLen
\* characters: the state in which main() has called it with its argument,
\* which names no file (a term of "/" only names the root directory), after
\* initialize() found OUT_DIR.
InitNames ==
    /\ pc = "Capture"
    /\ args \in {<<t>> : t \in {u \in StringsUpTo(TermAlphabet, MaxTermLen) :
                                   u = <<>> \/ \E k \in 1..Len(u) : u[k] # "/"}}
    /\ inputKind = "absent"
    /\ content = <<>>
    /\ outDir = [existed |-> TRUE, exists |-> TRUE]
    /\ browser = "open"
    /\ context = TRUE
    /\ page = TRUE
    /\ terms = <<>>
    /\ i = 0
    /\ results = <<>>
    /\ cap = [pc |-> "try", term |-> args[1], via |-> "single", step |-> 1,
              ret |-> Null, fallbacks |-> 0, fullShots |-> 0]
    /\ files = {}
    /\ calls = <<[term |-> args[1], via |-> "single"]>>
    /\ returns = <<>>
    /\ pauses = 0
    /\ summaries = <<>>
    /\ events = <<>>
    /\ mkdirs = 0
    /\ interrupted = FALSE

NextNames ==
    \/ PageCall
    \/ Screenshot
    \/ FallbackScreenshot
    \/ SingleReturn
    \/ Close

SpecNames == InitNames /\ [][NextNames]_vars

----------------------------------------------------------------------------
(* Properties *)

Range(s) == {s[k] : k \in 1..Len(s)}

\* main() has returned and the process has ended without an interrupt.
Done == pc = "Terminated" /\ ~interrupted

\* processTermsFromFile has read the terms file.
BatchStarted == "found" \in Range(events)

EndsWith(s, suffix) ==
    /\ Len(s) >= Len(suffix)
    /\ SubSeq(s, Len(s) - Len(suffix) + 1, Len(s)) = suffix

StartsWith(s, prefix) ==
    /\ Len(s) >= Len(prefix)
    /\ SubSeq(s, 1, Len(prefix)) = prefix

\* A file name without its last four characters, the extension.
Stem(name) == SubSeq(name, 1, Len(name) - Len(Png))

NameChars == AsciiLower \cup Digits \cup {"_"}

HasNonAlnum(t) ==
    \E k \in 1..Len(t) : t[k] \notin (AsciiLower \cup AsciiUpper \cup Digits)

\* The indices of the calls that have returned no path.
FailedCalls == {k \in 1..Len(returns) : returns[k] = Null}

\* C1: when main() has got past the argument check and the process ends
\* without an interrupt, whether every capture succeeded, some failed, the
\* terms file could not be read or initialize() failed, no launched browser
\* is left open, and the browser was closed by the close() of main()'s
\* finally; a browser that was never launched has no context, page or capture.
C1_BrowserClosedAtExit ==
    Done =>
        /\ browser \in {"null", "closed"}
        /\ browser = "closed" <=> "closing" \in Range(events)
        /\ browser = "null" =>
              /\ ~context /\ ~page /\ calls = <<>>
              /\ events \in {<<"usage">>, <<"fatal">>}

\* C1 witness: newContext() failed after the browser was launched, and the
\* run ended with the browser closed.
C1_Witness ==
    /\ Done
    /\ browser = "closed"
    /\ ~context
    /\ "fatal" \in Range(events)

\* C2: every call of searchAndCapture that is not in flight has returned a
\* value to its caller, whichever of its steps failed; no failure of a
\* capture reaches main()'s fatal handler; in batch mode every returned call
\* is recorded with its term, its path and success exactly when a path was
\* returned, and after a recorded call with terms left the runner is at the
\* pause before the next term (a batch is cut short only by a rejected pause
\* or an interrupt, never by a failed capture).
C2_NeverRaises ==
    /\ Len(returns) = Len(calls) - (IF cap.pc = "idle" THEN 0 ELSE 1)
    /\ (pc # "Capture" /\ ~interrupted) => cap.pc = "idle"
    /\ "fatal" \in Range(events) => calls = <<>>
    /\ BatchStarted =>
          /\ Len(results) = Len(returns)
          /\ \A k \in 1..Len(results) :
                /\ results[k].term = calls[k].term
                /\ results[k].term = terms[k]
                /\ results[k].filepath = returns[k]
                /\ results[k].success <=> returns[k] # Null
          /\ (cap.pc = "idle" /\ ~interrupted /\ Len(results) < Len(terms)) =>
                \/ pc = "Pause"
                \/ "read-error" \in Range(events)

\* C2 witness: in batch mode the first capture failed and was recorded as
\* failed, and the capture of the second term is in flight.
C2_Witness ==
    /\ BatchStarted
    /\ Len(results) = 1
    /\ ~results[1].success
    /\ Len(calls) = 2
    /\ cap.pc = "try"

\* C3: when a run that read its terms file ends without an interrupt,
\* searchAndCapture has been called once per nonblank trimmed line of the
\* file, in file order.
C3_EveryLineProcessed ==
    (Done /\ BatchStarted) =>
        [k \in 1..Len(calls) |-> calls[k].term] = ParseTerms(content)

\* C4: a call that returns a path returns one in OUT_DIR that ends in .png
\* and was written by the full-page screenshot after all twelve earlier
\* calls of the try block completed, with no fallback file; a call that
\* fails returns null, wrote no full-page screenshot and at most one
\* fallback file, which is viewport-only and named error_....
C4_CaptureResult ==
    cap.pc = "return" =>
        IF cap.ret # Null
        THEN /\ cap.ret.dir = OUT_DIR
             /\ EndsWith(cap.ret.name, Png)
             /\ [path |-> cap.ret, fullPage |-> TRUE] \in files
             /\ cap.step = Len(PageCalls) + 1
             /\ cap.fullShots = 1
             /\ cap.fallbacks = 0
        ELSE /\ cap.fullShots = 0
             /\ cap.fallbacks \in {0, 1}
             /\ cap.fallbacks = 1 =>
                   \E f \in files :
                      /\ ~f.fullPage
                      /\ f.path.dir = OUT_DIR
                      /\ StartsWith(f.path.name, ErrorPrefix)
                      /\ EndsWith(f.path.name, Png)

\* C4 witness: in one batch a capture has returned a path and a later one
\* returns null after writing its fallback file.
C4_Witness ==
    /\ cap.pc = "return"
    /\ cap.ret = Null
    /\ cap.fallbacks = 1
    /\ Len(results) = 1
    /\ results[1].success

\* C5: a capture of the argument itself is made only when the argument names
\* nothing accessible, and then it is the only capture and no terms file is
\* read; an accessible argument leads to batch captures only; when its read
\* fails the failure is reported, nothing is captured and the browser is
\* closed; an inaccessible argument gets exactly one capture once
\* initialize() has succeeded.
C5_ModeExclusive ==
    /\ \A k \in 1..Len(calls) :
          IF calls[k].via = "single"
          THEN /\ inputKind = "absent"
               /\ Len(calls) = 1
               /\ calls[k].term = args[1]
               /\ ~BatchStarted
               /\ "read-error" \notin Range(events)
          ELSE inputKind # "absent"
    /\ (Done /\ inputKind = "unreadable" /\ "fatal" \notin Range(events)) =>
          /\ calls = <<>>
          /\ "read-error" \in Range(events)
          /\ browser = "closed"
    /\ (Done /\ inputKind = "absent" /\ args # <<>>
             /\ "fatal" \notin Range(events)) =>
          /\ calls = <<[term |-> args[1], via |-> "single"]>>
          /\ Len(returns) = 1
          /\ browser = "closed"

\* C5 witness: the argument is accessible, reading it failed, the failure
\* was reported and the run ended with the browser closed.
C5_Witness ==
    /\ Done
    /\ inputKind = "unreadable"
    /\ "read-error" \in Range(events)
    /\ browser = "closed"

\* C6: at most one summary is printed; it is printed exactly when every
\* term's capture has returned, before close() is called; its counts add up
\* to the number of terms, its screenshots are the names of the paths
\* returned and its failed terms are the terms whose call returned null,
\* both in order; for no terms it is empty and nothing was captured.
C6_Summary ==
    /\ Len(summaries) <= 1
    /\ (BatchStarted /\ Len(returns) = Len(terms)) <=> Len(summaries) = 1
    /\ Len(summaries) = 1 =>
          LET s == summaries[1]
              zipped == [k \in 1..Len(terms) |->
                            [term |-> terms[k], ret |-> returns[k]]]
              ok == SelectSeq(zipped, LAMBDA z : z.ret # Null)
              ko == SelectSeq(zipped, LAMBDA z : z.ret = Null)
          IN  /\ cap.pc = "idle"
              /\ Len(calls) = Len(terms)
              /\ s.total = Len(terms)
              /\ s.successful + s.failed = Len(terms)
              /\ s.failed = Cardinality(FailedCalls)
              /\ s.shots = [k \in 1..Len(ok) |-> ok[k].ret.name]
              /\ s.failedTerms = [k \in 1..Len(ko) |-> ko[k].term]
              /\ Len(terms) = 0 =>
                    /\ calls = <<>>
                    /\ s = [successful |-> 0, failed |-> 0, total |-> 0,
                            shots |-> <<>>, failedTerms |-> <<>>]
              /\ \A a, b \in 1..Len(events) :
                    (events[a] = "summary" /\ events[b] = "closing") => a < b
              /\ Cardinality({a \in 1..Len(events) : events[a] = "summary"}) = 1

\* C6 witness: a summary of three terms with a success and a failure.
C6_Witness ==
    /\ Len(summaries) = 1
    /\ summaries[1].total >= 2
    /\ summaries[1].successful >= 1
    /\ summaries[1].failed >= 1

\* C7, as stated: for a term with a character outside [A-Za-z0-9], every
\* file name written by searchAndCapture(term) ends in .png and holds before the extension
\* only characters of [a-z0-9_].
C7_NameCharsOnly ==
    \A f \in files :
        HasNonAlnum(calls[1].term) =>
            /\ EndsWith(f.path.name, Png)
            /\ \A k \in 1..Len(Stem(f.path.name)) :
                  Stem(f.path.name)[k] \in NameChars

\* C7, amended: for a term with a character outside [A-Za-z0-9], every file
\* name written by searchAndCapture(term) ends in .png; before the extension the fallback name
\* is error_ and the sanitized term, and the success name is the sanitized
\* term, an underscore and a date stamp of digits and hyphens; the sanitized
\* term has the term's length and only characters of [a-z0-9_]: a lower-case
\* letter or digit is kept, an upper-case letter becomes a lower-case
\* letter, every other character becomes an underscore.
C7_SanitizedNames ==
    \A f \in files :
        HasNonAlnum(calls[1].term) =>
            LET t == calls[1].term
                n == Len(t)
                stem == Stem(f.path.name)
                off == IF f.fullPage THEN 0 ELSE Len(ErrorPrefix)
                san == SubSeq(stem, off + 1, off + n)
            IN  /\ EndsWith(f.path.name, Png)
                /\ Len(stem) >= off + n
                /\ \A k \in 1..n :
                      /\ san[k] \in NameChars
                      /\ t[k] \in AsciiLower \cup Digits => san[k] = t[k]
                      /\ t[k] \in AsciiUpper => san[k] \in AsciiLower
                      /\ t[k] \notin AsciiLower \cup AsciiUpper \cup Digits
                            => san[k] = "_"
                /\ IF f.fullPage
                   THEN /\ Len(stem) > n + 1
                        /\ stem[n + 1] = "_"
                        /\ \A k \in (n + 2)..Len(stem) :
                              stem[k] \in Digits \cup {"-"}
                        /\ \E k \in (n + 2)..Len(stem) : stem[k] = "-"
                   ELSE /\ StartsWith(stem, ErrorPrefix)
                        /\ Len(stem) = off + n
                        /\ \A k \in 1..Len(stem) : stem[k] \in NameChars

\* C7 witness: the success file of a term with an upper-case letter and a
\* character that is no letter or digit has been written.
C7_Witness ==
    /\ \E k \in 1..Len(cap.term) : cap.term[k] \in AsciiUpper
    /\ HasNonAlnum(cap.term)
    /\ cap.pc = "return"
    /\ cap.ret # Null
    /\ \E f \in files : f.fullPage /\ f.path = cap.ret

\* C8: at most one call of searchAndCapture is in flight; in batch mode
\* every call after the first starts when a pause completes, so the pauses
\* completed are one less than the calls made; a pause is awaited only
\* after a call has returned and with terms left, never after the last
\* term; a completed batch of N >= 1 terms has had exactly N - 1 pauses.
C8_Paced ==
    /\ Len(calls) - Len(returns) \in {0, 1}
    /\ Len(calls) - Len(returns) = 1 <=> cap.pc # "idle"
    /\ pauses = IF Len(calls) = 0 \/ ~BatchStarted THEN 0 ELSE Len(calls) - 1
    /\ pc = "Pause" =>
          /\ cap.pc = "idle"
          /\ Len(returns) = Len(calls)
          /\ Len(calls) < Len(terms)
    /\ (Len(summaries) = 1 /\ Len(terms) >= 1) => pauses = Len(terms) - 1

\* C8 witness: a batch of at least two terms has completed.
C8_Witness ==
    /\ Len(summaries) = 1
    /\ Len(terms) >= 2
    /\ pauses = Len(terms) - 1

\* C9: at most one mkdir is issued in a run, and only when OUT_DIR was
\* absent; an OUT_DIR that was present stays; whenever main() is past
\* initialize(), a capture has been called or a file written, OUT_DIR
\* exists; when it could not be created the run ends in the fatal handler
\* with no capture called.
C9_OutDirFirst ==
    /\ mkdirs <= 1
    /\ mkdirs = 1 => ~outDir.existed
    /\ outDir.existed => (outDir.exists /\ mkdirs = 0)
    /\ (\/ pc \in {"AccessInput", "ReadFile", "Capture", "Pause"}
        \/ cap.pc # "idle"
        \/ calls # <<>>
        \/ files # {}) =>
          /\ outDir.exists
          /\ ~outDir.existed => mkdirs = 1
    /\ (Done /\ mkdirs = 1 /\ ~outDir.exists) =>
          /\ "fatal" \in Range(events)
          /\ calls = <<>>
          /\ files = {}

\* C9 witness: OUT_DIR was absent, was created by the one mkdir, and a
\* capture has been called.
C9_Witness ==
    /\ ~outDir.existed
    /\ outDir.exists
    /\ mkdirs = 1
    /\ calls # <<>>

====
